---- MODULE Spec2Model ----
(***************************************************************************)
(* Model of subsampling.py: the SequenceList bookkeeping class, the        *)
(* partition helper get_defect_stats, the two median methods and the two   *)
(* replica loops do_subsampling / do_subsampling_dates.                    *)
(*                                                                         *)
(* A SequenceList object is a record with the fields of the class.  A      *)
(* Sequence is a record [clone_id, defect, date]; a date is its proleptic  *)
(* ordinal (date.toordinal()), or "None" when no date was given.           *)
(* clone_sizes (a defaultdict(lambda: 0) that is only ever written with    *)
(* += 1) is a function whose DOMAIN is the set of keys present.            *)
(***************************************************************************)
EXTENDS Integers, Sequences, FiniteSets, TLC

VARIABLES
    seq_list,       \* the SequenceList under construction
    raised,         \* "None", or the exception the last call ended with
    last_call,      \* the last method called on seq_list and its arguments
    history,        \* ghost: how seq_list was built since SequenceList()
    query,          \* the function last applied to seq_list, with its argument
    result,         \* what that function returned, or the exception it raised
    call,           \* the arguments of the running do_subsampling[_dates] call
    pc,             \* where that call stands
    i,              \* its loop variable: replicas completed so far
    sampled_sequences,      \* the SequenceList of the current replica
    new_seqs,       \* the records random.choices has drawn for the current batch
    outfile,        \* the rows written to the report so far
    all_stats,      \* do_subsampling: the per-column lists of add_all_data
    average_median_date,    \* do_subsampling_dates: the running sum of medians
    error           \* "None", or the exception that ended the call

build_vars == <<seq_list, raised, last_call, history>>
query_vars == <<query, result>>
run_vars == <<call, pc, i, sampled_sequences, new_seqs, outfile, all_stats,
              average_median_date, error>>
vars == <<build_vars, query_vars, run_vars>>

----------------------------------------------------------------------------
(* Bounds of the model.                                                    *)

MaxRecords == 3     \* longest record list held or passed in
MaxFrequency == 2   \* largest frequency of one add_initial_sequence call
MaxCalls == 3       \* successful calls on one SequenceList object
MaxDated == 4       \* longest list of dated records whose median is taken
MaxDate == 3        \* dates are the ordinals 1..MaxDate
MaxRef == 3         \* input rows carrying the reference label
MaxPool == 2        \* unique input rows carrying another label
MaxReplicas == 2    \* largest num_replicas
MaxSampled == 4     \* records a replica may hold after a draw that adds no id

----------------------------------------------------------------------------
(* Input alphabets.                                                        *)

CloneIdInputs == {"unique", "unique0", "clone1"}
RecordCloneIds == {"unique0", "clone1", "clone2"}
DEFECTS_TO_INVESTIGATE == {"intact", "5defect", "hypermutated"}
DefectInputs == {"intact", "5defect"}
NoDate == "None"

----------------------------------------------------------------------------
(* class Sequence, class SequenceList                                      *)

Sequence(clone_id, defect, date) ==
    [clone_id |-> clone_id, defect |-> defect, date |-> date]

SequenceList ==
    [sequences |-> << >>,
     unique_counter |-> 0,
     clone_counter |-> 0,
     distinct_counter |-> 0,
     clone_sizes |-> [k \in {} |-> 0]]

\* {sequence.clone_id for sequence in sequence_list}
clone_ids(sequence_list) ==
    {sequence_list[j].clone_id : j \in DOMAIN sequence_list}

\* d[key] += 1 on a defaultdict(lambda: 0)
increment(d, key) ==
    [k \in DOMAIN d \cup {key} |->
        IF k = key THEN (IF key \in DOMAIN d THEN d[key] ELSE 0) + 1 ELSE d[k]]

\* the list appended by "for i in range(0, frequency): append(Sequence(...))"
copies(record, frequency) == [j \in 1..frequency |-> record]

\* add_initial_sequence without the "clone we haven't seen yet" assertion
add_initial_sequence_unchecked(self, clone_id, defect, frequency, date) ==
    IF clone_id = "unique"
    THEN LET new_id == "unique" \o ToString(self.unique_counter)
             counted == [self EXCEPT !.unique_counter = @ + 1]
         IN  IF frequency # 1
             THEN [self |-> counted, raised |-> "AssertionError"]
             ELSE [self |-> [counted EXCEPT
                               !.sequences = @ \o copies(Sequence(new_id, defect, date), frequency),
                               !.distinct_counter = @ + 1],
                   raised |-> "None"]
    ELSE [self |-> [self EXCEPT
                      !.clone_counter = @ + 1,
                      !.sequences = @ \o copies(Sequence(clone_id, defect, date), frequency),
                      !.distinct_counter = @ + 1],
          raised |-> "None"]

\* add_initial_sequence naming the new id after the counter was advanced
add_initial_sequence_late_id(self, clone_id, defect, frequency, date) ==
    IF clone_id = "unique"
    THEN LET counted == [self EXCEPT !.unique_counter = @ + 1]
             new_id == "unique" \o ToString(counted.unique_counter)
         IN  IF frequency # 1
             THEN [self |-> counted, raised |-> "AssertionError"]
             ELSE [self |-> [counted EXCEPT
                               !.sequences = @ \o copies(Sequence(new_id, defect, date), frequency),
                               !.distinct_counter = @ + 1],
                   raised |-> "None"]
    ELSE IF clone_id \in clone_ids(self.sequences)
         THEN [self |-> self, raised |-> "AssertionError"]
         ELSE [self |-> [self EXCEPT
                           !.clone_counter = @ + 1,
                           !.sequences = @ \o copies(Sequence(clone_id, defect, date), frequency),
                           !.distinct_counter = @ + 1],
               raised |-> "None"]

add_initial_sequence(self, clone_id, defect, frequency, date) ==
    IF clone_id = "unique"
    THEN LET new_id == "unique" \o ToString(self.unique_counter)
             counted == [self EXCEPT !.unique_counter = @ + 1]
         IN  IF frequency # 1
             THEN [self |-> counted, raised |-> "AssertionError"]
             ELSE [self |-> [counted EXCEPT
                               !.sequences = @ \o copies(Sequence(new_id, defect, date), frequency),
                               !.distinct_counter = @ + 1],
                   raised |-> "None"]
    ELSE IF clone_id \in clone_ids(self.sequences)
         THEN [self |-> self, raised |-> "AssertionError"]
         ELSE [self |-> [self EXCEPT
                           !.clone_counter = @ + 1,
                           !.sequences = @ \o copies(Sequence(clone_id, defect, date), frequency),
                           !.distinct_counter = @ + 1],
               raised |-> "None"]

\* [sequence for sequence in sequence_list if sequence.clone_id == clone_id]
sequences_this_id(sequence_list, clone_id) ==
    SelectSeq(sequence_list, LAMBDA sequence : sequence.clone_id = clone_id)

\* count_clone taking every clone of size up to 2 for a unique sequence
count_clone_size_two_unique(acc, sequence_list, clone_id) ==
    LET clone_size == Len(sequences_this_id(sequence_list, clone_id))
        sized == [acc EXCEPT !.clone_sizes = increment(@, clone_size)]
    IN  IF clone_size <= 2
        THEN [sized EXCEPT !.unique_counter = @ + 1]
        ELSE IF clone_id \notin acc.counted_clones
             THEN [sized EXCEPT !.clone_counter = @ + 1,
                                !.counted_clones = @ \cup {clone_id}]
             ELSE sized

\* one pass of the body of "for clone_id in distinct_sequences"
count_clone(acc, sequence_list, clone_id) ==
    LET clone_size == Len(sequences_this_id(sequence_list, clone_id))
        sized == [acc EXCEPT !.clone_sizes = increment(@, clone_size)]
    IN  IF clone_size = 1
        THEN [sized EXCEPT !.unique_counter = @ + 1]
        ELSE IF clone_id \notin acc.counted_clones
             THEN [sized EXCEPT !.clone_counter = @ + 1,
                                !.counted_clones = @ \cup {clone_id}]
             ELSE sized

RECURSIVE count_clones(_, _, _)
count_clones(acc, sequence_list, distinct_sequences) ==
    IF distinct_sequences = {}
    THEN acc
    ELSE LET clone_id == CHOOSE c \in distinct_sequences : TRUE
         IN  count_clones(count_clone(acc, sequence_list, clone_id),
                          sequence_list, distinct_sequences \ {clone_id})

add_many_sequences(self, sequence_list) ==
    LET distinct_sequences == clone_ids(sequence_list)
        acc == count_clones([clone_sizes |-> self.clone_sizes,
                             unique_counter |-> self.unique_counter,
                             clone_counter |-> self.clone_counter,
                             counted_clones |-> {}],
                            sequence_list, distinct_sequences)
    IN  [sequences |-> sequence_list,
         unique_counter |-> acc.unique_counter,
         clone_counter |-> acc.clone_counter,
         distinct_counter |-> Cardinality(distinct_sequences),
         clone_sizes |-> acc.clone_sizes]

add_many_sequences_to_existing(self, sequence_list) ==
    LET sequences == self.sequences \o sequence_list
    IN  [self EXCEPT !.sequences = sequences,
                     !.distinct_counter = Cardinality(clone_ids(sequences))]

\* list.sort() on a list of dates: the stable ascending order, in which the
\* element at position j goes to the position given by the number of
\* elements that are smaller, or equal and not later in the list.
\* (Here and below "CHOOSE x \in {f(d) : d \in {e}} : TRUE" is f(e) with e
\* evaluated once.)
rank(dates, j) ==
    Cardinality({m \in DOMAIN dates :
                    \/ dates[m] < dates[j]
                    \/ dates[m] = dates[j] /\ m <= j})

sort(dates) ==
    CHOOSE sorted \in
        {[k \in DOMAIN d |-> d[CHOOSE j \in DOMAIN d : rank(d, j) = k]] : d \in {dates}} :
        TRUE

\* get_dates: the date of the first record of every clone id, in list order
get_dates(self) ==
    CHOOSE dates \in
        {[j \in DOMAIN first |-> self.sequences[first[j]].date] :
            first \in {SelectSeq([j \in DOMAIN self.sequences |-> j],
                                 LAMBDA j : \A k \in 1..(j - 1) :
                                     self.sequences[k].clone_id
                                         # self.sequences[j].clone_id)}} :
        TRUE

\* the body shared by get_median_date and get_median_date_of_distinct_sequences,
\* on the sorted dates; dates[k] of the code (0-based) is dates[k + 1] here,
\* and an index past the end raises IndexError.  left + (right - left)/2 is
\* cut to whole days (date + timedelta drops the half day; int() truncates).
median_at(dates) ==
    LET length == Len(dates)
        half == length \div 2
    IN  IF length % 2 = 0
        THEN IF half + 1 > length
             THEN [value |-> "None", raised |-> "IndexError"]        \* left
             ELSE IF half + 2 > length
                  THEN [value |-> "None", raised |-> "IndexError"]   \* right
                  ELSE LET left == dates[half + 1]
                           right == dates[half + 2]
                       IN  [value |-> left + ((right - left) \div 2), raised |-> "None"]
        ELSE [value |-> dates[half + 1], raised |-> "None"]

median_of_sorted(dates) ==
    CHOOSE median \in {median_at(d) : d \in {dates}} : TRUE

get_median_date(self) ==
    median_of_sorted(sort([j \in DOMAIN self.sequences |-> self.sequences[j].date]))

get_median_date_of_distinct_sequences(self) ==
    median_of_sorted(sort(get_dates(self)))

\* get_defect_stats keeping every sequence in other_sequences
get_defect_stats_other_unfiltered(sequences, defect) ==
    [sequences_this_defect |->
        add_many_sequences(SequenceList,
            SelectSeq(sequences, LAMBDA sequence : sequence.defect = defect)),
     other_sequences |-> add_many_sequences(SequenceList, sequences)]

get_defect_stats(sequences, defect) ==
    [sequences_this_defect |->
        add_many_sequences(SequenceList,
            SelectSeq(sequences, LAMBDA sequence : sequence.defect = defect)),
     other_sequences |->
        add_many_sequences(SequenceList,
            SelectSeq(sequences, LAMBDA sequence : sequence.defect # defect))]

\* read_data / read_dates_data (one person): add_initial_sequence row by row;
\* the first AssertionError ends the reading
RECURSIVE read_data(_, _)
read_data(all_sequences, rows) ==
    IF rows = << >>
    THEN [self |-> all_sequences, raised |-> "None"]
    ELSE LET row == Head(rows)
             r == add_initial_sequence(all_sequences, row.clonality, row.label,
                                       row.frequency, row.date)
         IN  IF r.raised # "None" THEN r ELSE read_data(r.self, Tail(rows))

\* random.choices(population, k=k) for the indices drawn: one element per
\* index (indices are 1-based here)
choices(population, indices) ==
    [j \in DOMAIN indices |-> population[indices[j]]]

\* the draws random.choices(population, k=k) can make; none when the
\* population is empty and k > 0 (the call raises IndexError)
choices_indices(population, k) == [1..k -> 1..Len(population)]

\* number_missing = sampling_depth - sampled_sequences.distinct_counter
number_missing(sampling_depth, sampled) ==
    sampling_depth - sampled.distinct_counter

\* add_all_data: append one value to each of the four columns (odds_ratio and
\* p_value come from fisher_exact and are kept as the table it was given)
add_all_data(stats, num_unique, num_clonal, odds_ratio, p_value) ==
    LET column(key) == IF key \in DOMAIN stats THEN stats[key] ELSE << >>
    IN  [key \in DOMAIN stats \cup {"unique", "clonal", "odds_ratio", "p_value"} |->
            CASE key = "unique" -> Append(column(key), num_unique)
              [] key = "clonal" -> Append(column(key), num_clonal)
              [] key = "odds_ratio" -> Append(column(key), odds_ratio)
              [] key = "p_value" -> Append(column(key), p_value)
              [] OTHER -> stats[key]]

\* calculate_stats: one mean per column of all_stats, none for no column;
\* a mean is kept as <<sum, len>> (of the two integer columns)
RECURSIVE sum_list(_)
sum_list(entry) == IF entry = << >> THEN 0 ELSE Head(entry) + sum_list(Tail(entry))

calculate_stats(stats) ==
    IF DOMAIN stats = {}
    THEN << >>
    ELSE << <<sum_list(stats["unique"]), Len(stats["unique"])>>,
            <<sum_list(stats["clonal"]), Len(stats["clonal"])>>,
            "odds_ratio", "p_value" >>

----------------------------------------------------------------------------
(* Specification Spec: one SequenceList object driven by its three         *)
(* construction methods, as the tests drive it.  An AssertionError ends    *)
(* the use of the object (nothing in the program catches it and goes on);  *)
(* only a new SequenceList() follows.                                      *)

\* every list of at most n elements of S
ListsUpTo(S, n) == UNION {[1..k -> S] : k \in 0..n}

RecordInputs == {Sequence(c, "intact", NoDate) : c \in RecordCloneIds}

NoCall == [op |-> "__init__", clone_id |-> "", frequency |-> 0]
NoHistory == [calls |-> 0, initial_only |-> TRUE, unique_only |-> TRUE]
NoQuery == [op |-> "none", defect |-> ""]
NoResult == [value |-> "None", raised |-> "None"]
NoCallRunning == [mode |-> "none"]

\* no do_subsampling[_dates] call is running
IdleRun ==
    /\ call = NoCallRunning
    /\ pc = "idle"
    /\ i = 0
    /\ sampled_sequences = SequenceList
    /\ new_seqs = << >>
    /\ outfile = << >>
    /\ all_stats = [k \in {} |-> << >>]
    /\ average_median_date = 0
    /\ error = "None"

Init ==
    /\ seq_list = SequenceList
    /\ raised = "None"
    /\ last_call = NoCall
    /\ history = NoHistory
    /\ query = NoQuery
    /\ result = NoResult
    /\ IdleRun

CreateEmpty ==
    /\ seq_list' = SequenceList
    /\ raised' = "None"
    /\ last_call' = NoCall
    /\ history' = NoHistory
    /\ UNCHANGED <<query_vars, run_vars>>

AddInitialSequence(clone_id, defect, frequency) ==
    /\ raised = "None"
    /\ history.calls < MaxCalls
    /\ Len(seq_list.sequences) + frequency <= MaxRecords
    /\ LET r == add_initial_sequence(seq_list, clone_id, defect, frequency, NoDate)
       IN  /\ seq_list' = r.self
           /\ raised' = r.raised
           /\ history' = IF r.raised = "None"
                         THEN [history EXCEPT !.calls = @ + 1,
                                              !.unique_only = @ /\ clone_id = "unique"]
                         ELSE history
    /\ last_call' = [op |-> "add_initial_sequence", clone_id |-> clone_id,
                     frequency |-> frequency]
    /\ UNCHANGED <<query_vars, run_vars>>

AddManySequences(sequence_list) ==
    /\ raised = "None"
    /\ history.calls < MaxCalls
    /\ seq_list' = add_many_sequences(seq_list, sequence_list)
    /\ raised' = "None"
    /\ history' = [calls |-> history.calls + 1, initial_only |-> FALSE,
                   unique_only |-> FALSE]
    /\ last_call' = [op |-> "add_many_sequences", clone_id |-> "",
                     frequency |-> 0]
    /\ UNCHANGED <<query_vars, run_vars>>

AddManySequencesToExisting(sequence_list) ==
    /\ raised = "None"
    /\ history.calls < MaxCalls
    /\ Len(seq_list.sequences) + Len(sequence_list) <= MaxRecords
    /\ seq_list' = add_many_sequences_to_existing(seq_list, sequence_list)
    /\ raised' = "None"
    /\ history' = [calls |-> history.calls + 1, initial_only |-> FALSE,
                   unique_only |-> FALSE]
    /\ last_call' = [op |-> "add_many_sequences_to_existing", clone_id |-> "",
                     frequency |-> 0]
    /\ UNCHANGED <<query_vars, run_vars>>

Next ==
    \/ CreateEmpty
    \/ \E clone_id \in CloneIdInputs, defect \in DefectInputs, frequency \in 0..MaxFrequency :
           AddInitialSequence(clone_id, defect, frequency)
    \/ \E sequence_list \in ListsUpTo(RecordInputs, MaxRecords) :
           AddManySequences(sequence_list)
    \/ \E sequence_list \in ListsUpTo(RecordInputs, MaxRecords) :
           AddManySequencesToExisting(sequence_list)

Spec == Init /\ [][Next]_vars

----------------------------------------------------------------------------
(* Properties of the construction methods, checked under Spec.             *)

\* number of records of sequence_list carrying clone_id
occurrences(sequence_list, clone_id) ==
    Cardinality({j \in DOMAIN sequence_list : sequence_list[j].clone_id = clone_id})

\* clone ids occurring exactly once / more than once in sequence_list
ids_once(sequence_list) ==
    {c \in clone_ids(sequence_list) : occurrences(sequence_list, c) = 1}
ids_repeated(sequence_list) ==
    {c \in clone_ids(sequence_list) : occurrences(sequence_list, c) > 1}

RECURSIVE sum_values(_, _)
sum_values(d, keys) ==
    IF keys = {} THEN 0
    ELSE LET k == CHOOSE x \in keys : TRUE
         IN  d[k] + sum_values(d, keys \ {k})

RECURSIVE sum_weighted(_, _)
sum_weighted(d, keys) ==
    IF keys = {} THEN 0
    ELSE LET k == CHOOSE x \in keys : TRUE
         IN  k * d[k] + sum_weighted(d, keys \ {k})

\* C1: in every state reached by successful add_initial_sequence,
\* add_many_sequences and add_many_sequences_to_existing calls on a new
\* SequenceList, distinct_counter = unique_counter + clone_counter.
C1_DistinctIsUniquePlusClone ==
    raised = "None" =>
        seq_list.distinct_counter = seq_list.unique_counter + seq_list.clone_counter

\* C2: add_many_sequences on a new SequenceList counts an id occurring once
\* as unique and an id occurring more than once as one clone, whatever its
\* name; distinct = unique + clone; the clone_sizes values sum to distinct;
\* and size * count summed over clone_sizes is the number of records.
C2_FreshBuildAggregates ==
    (last_call.op = "add_many_sequences" /\ history.calls = 1) =>
        /\ seq_list.unique_counter = Cardinality(ids_once(seq_list.sequences))
        /\ seq_list.clone_counter = Cardinality(ids_repeated(seq_list.sequences))
        /\ seq_list.distinct_counter = seq_list.unique_counter + seq_list.clone_counter
        /\ sum_values(seq_list.clone_sizes, DOMAIN seq_list.clone_sizes)
              = seq_list.distinct_counter
        /\ sum_weighted(seq_list.clone_sizes, DOMAIN seq_list.clone_sizes)
              = Len(seq_list.sequences)

\* a new SequenceList built from one clone of size 2 and one unique record
C2_Witness ==
    /\ last_call.op = "add_many_sequences"
    /\ history.calls = 1
    /\ Len(seq_list.sequences) = 3
    /\ seq_list.unique_counter = 1
    /\ seq_list.clone_counter = 1
    /\ seq_list.clone_sizes = [k \in {1, 2} |-> 1]

\* C3: add_many_sequences overwrites: whatever the object held before, its
\* fields afterwards are those of add_many_sequences of the same records on
\* a new SequenceList.
C3_OverwriteSemantics ==
    (last_call.op = "add_many_sequences" /\ raised = "None") =>
        seq_list = add_many_sequences(SequenceList, seq_list.sequences)

\* the two cases in which the claim lets add_initial_sequence fail
C4_MustFail(self, clone_id, frequency) ==
    \/ clone_id = "unique" /\ frequency # 1
    \/ clone_id # "unique" /\ occurrences(self.sequences, clone_id) > 0

\* C4: add_initial_sequence raises exactly when the clone_id is 'unique' with
\* frequency # 1, or is a non-sentinel id already carried by a record; in
\* every other case it returns normally, keeps the records it had and
\* appends `frequency` records that share one clone_id.
C4_FailsExactlyInTwoCases ==
    [][ last_call'.op = "add_initial_sequence" =>
          LET clone_id == last_call'.clone_id
              frequency == last_call'.frequency
              before == seq_list.sequences
              after == seq_list'.sequences
          IN  /\ (raised' # "None") <=> C4_MustFail(seq_list, clone_id, frequency)
              /\ ~C4_MustFail(seq_list, clone_id, frequency) =>
                    /\ Len(after) = Len(before) + frequency
                    /\ SubSeq(after, 1, Len(before)) = before
                    /\ \A j, k \in (Len(before) + 1)..Len(after) :
                          after[j].clone_id = after[k].clone_id
                    /\ clone_id # "unique" =>
                          \A j \in (Len(before) + 1)..Len(after) :
                              after[j].clone_id = clone_id
      ]_vars

\* re-adding clone1, which two records already carry, has raised
C4_Witness ==
    /\ last_call.op = "add_initial_sequence"
    /\ last_call.clone_id = "clone1"
    /\ raised = "AssertionError"
    /\ occurrences(seq_list.sequences, "clone1") = 2

\* the ids the claim expects, in order of insertion
C5_ExpectedIds == <<"unique0", "unique1", "unique2", "unique3", "unique4", "unique5">>

\* C5: N successful add_initial_sequence('unique', _, 1) calls on a new
\* SequenceList give unique_counter = N, clone_counter = 0,
\* distinct_counter = N and the N records unique0 .. unique(N-1) in order.
C5_UniqueOnly ==
    (history.unique_only /\ raised = "None") =>
        LET N == history.calls
        IN  /\ seq_list.unique_counter = N
            /\ seq_list.clone_counter = 0
            /\ seq_list.distinct_counter = N
            /\ Len(seq_list.sequences) = N
            /\ \A j \in 1..N : seq_list.sequences[j].clone_id = C5_ExpectedIds[j]

\* three sentinel calls have been made on a new SequenceList
C5_Witness ==
    /\ history.unique_only
    /\ raised = "None"
    /\ history.calls = 3
    /\ last_call.op = "add_initial_sequence"

\* C6: after successful add_initial_sequence calls only, unique_counter is
\* the number of clone ids that occur exactly once among the records.
C6_UniqueCounterIsIdsOnce ==
    (history.initial_only /\ raised = "None") =>
        seq_list.unique_counter = Cardinality(ids_once(seq_list.sequences))

----------------------------------------------------------------------------
(* Specification SpecPartition: get_defect_stats applied to a record list. *)
(* Specification SpecMedian: the two median methods applied to a           *)
(* SequenceList of dated records.  Both start from a list drawn from a     *)
(* bounded set and held by a SequenceList built with add_many_sequences.   *)

PartitionInputs ==
    {Sequence(c, d, NoDate) : c \in {"clone1", "clone2"}, d \in DEFECTS_TO_INVESTIGATE}

DatedInputs ==
    {Sequence(c, "0", d) : c \in {"clone1", "clone2"}, d \in 1..MaxDate}

InitPartition ==
    /\ \E sequence_list \in ListsUpTo(PartitionInputs, MaxRecords) :
           seq_list = add_many_sequences(SequenceList, sequence_list)
    /\ raised = "None"
    /\ last_call = [op |-> "add_many_sequences", clone_id |-> "", frequency |-> 0]
    /\ history = [calls |-> 1, initial_only |-> FALSE, unique_only |-> FALSE]
    /\ query = NoQuery
    /\ result = NoResult
    /\ IdleRun

GetDefectStats(defect) ==
    /\ query' = [op |-> "get_defect_stats", defect |-> defect]
    /\ result' = get_defect_stats(seq_list.sequences, defect)
    /\ UNCHANGED <<build_vars, run_vars>>

NextPartition ==
    \E defect \in DEFECTS_TO_INVESTIGATE : GetDefectStats(defect)

SpecPartition == InitPartition /\ [][NextPartition]_vars

InitMedian ==
    /\ \E sequence_list \in ListsUpTo(DatedInputs, MaxDated) :
           seq_list = add_many_sequences(SequenceList, sequence_list)
    /\ raised = "None"
    /\ last_call = [op |-> "add_many_sequences", clone_id |-> "", frequency |-> 0]
    /\ history = [calls |-> 1, initial_only |-> FALSE, unique_only |-> FALSE]
    /\ query = NoQuery
    /\ result = NoResult
    /\ IdleRun

GetMedianDate ==
    /\ query' = [op |-> "get_median_date", defect |-> ""]
    /\ result' = get_median_date(seq_list)
    /\ UNCHANGED <<build_vars, run_vars>>

GetMedianDateOfDistinctSequences ==
    /\ query' = [op |-> "get_median_date_of_distinct_sequences", defect |-> ""]
    /\ result' = get_median_date_of_distinct_sequences(seq_list)
    /\ UNCHANGED <<build_vars, run_vars>>

NextMedian ==
    \/ GetMedianDate
    \/ GetMedianDateOfDistinctSequences

SpecMedian == InitMedian /\ [][NextMedian]_vars

----------------------------------------------------------------------------
(* Properties of get_defect_stats (SpecPartition) and of the medians       *)
(* (SpecMedian).                                                           *)

\* number of positions of sequence_list holding record
count_record(sequence_list, record) ==
    Cardinality({j \in DOMAIN sequence_list : sequence_list[j] = record})

\* C7: get_defect_stats returns one SequenceList holding exactly the records
\* whose defect is the label and one holding exactly the others; every
\* record of the input occurs in the two together as often as in the input.
C7_PartitionKeepsRecords ==
    query.op = "get_defect_stats" =>
        LET this == result.sequences_this_defect.sequences
            other == result.other_sequences.sequences
            input == seq_list.sequences
        IN  /\ \A j \in DOMAIN this : this[j].defect = query.defect
            /\ \A j \in DOMAIN other : other[j].defect # query.defect
            /\ \A j \in DOMAIN input :
                  IF input[j].defect = query.defect
                  THEN count_record(this, input[j]) = count_record(input, input[j])
                  ELSE count_record(other, input[j]) = count_record(input, input[j])
            /\ Len(this) + Len(other) = Len(input)

\* three records were split into two carrying the label and one not
C7_Witness ==
    /\ query.op = "get_defect_stats"
    /\ Len(seq_list.sequences) = 3
    /\ Len(result.sequences_this_defect.sequences) = 2
    /\ Len(result.other_sequences.sequences) = 1

\* the value the claim gives for the ascending dates d (d[k] 0-based is
\* d[k + 1] here)
C10_Expected(d) ==
    LET n == Len(d)
    IN  IF n % 2 = 1
        THEN d[(n \div 2) + 1]
        ELSE d[(n \div 2) + 1] + ((d[(n \div 2) + 2] - d[(n \div 2) + 1]) \div 2)

\* C10: on n >= 1 dates both medians return, with no out-of-range access,
\* d[n div 2] for odd n and d[n div 2] plus half the gap to d[n div 2 + 1]
\* for every even n >= 2, d being the dates in ascending order.
C10_MedianRule ==
    /\ (query.op = "get_median_date" /\ Len(seq_list.sequences) >= 1) =>
          /\ result.raised = "None"
          /\ result.value =
                C10_Expected(sort([j \in DOMAIN seq_list.sequences |->
                                      seq_list.sequences[j].date]))
    /\ (query.op = "get_median_date_of_distinct_sequences"
            /\ Len(seq_list.sequences) >= 1) =>
          /\ result.raised = "None"
          /\ result.value = C10_Expected(sort(get_dates(seq_list)))

\* What holds of the medians: the same rule with the two-date case left out
MedianRuleExceptTwo ==
    /\ (query.op = "get_median_date" /\ Len(seq_list.sequences) \notin {0, 2}) =>
          /\ result.raised = "None"
          /\ result.value =
                C10_Expected(sort([j \in DOMAIN seq_list.sequences |->
                                      seq_list.sequences[j].date]))
    /\ (query.op = "get_median_date_of_distinct_sequences"
            /\ seq_list.distinct_counter \notin {0, 2}) =>
          /\ result.raised = "None"
          /\ result.value = C10_Expected(sort(get_dates(seq_list)))

----------------------------------------------------------------------------
(* Specification SpecSub: one call of do_subsampling (mode "defect") or of *)
(* do_subsampling_dates (mode "dates"), as defect_based_subsampling and    *)
(* date_based_subsampling make it: the input rows are read into            *)
(* all_sequences, get_defect_stats splits them into the reference          *)
(* (defect_seqs) and the pool (sequences), and the call runs on the two.   *)
(* The statistical tests (fisher_exact, mannwhitneyu, std) are library     *)
(* calls whose values only pass through to the report; they are left out.  *)

Row(clonality, label, frequency, date) ==
    [clonality |-> clonality, label |-> label, frequency |-> frequency, date |-> date]

\* an input file: n_ref unique rows of the reference label, n_pool unique
\* rows of the other label, and (with_clone) one clone of two of that label;
\* in mode "dates" the date of a row is its line number
InputRows(mode, ref_label, other_label, n_ref, n_pool, with_clone) ==
    LET day(n) == IF mode = "dates" THEN n ELSE NoDate
    IN  [j \in 1..n_ref |-> Row("unique", ref_label, 1, day(j))]
        \o [j \in 1..n_pool |-> Row("unique", other_label, 1, day(n_ref + j))]
        \o (IF with_clone
            THEN <<Row("clone1", other_label, 2, day(n_ref + n_pool + 1))>>
            ELSE << >>)

InitSub ==
    /\ \E mode \in {"defect", "dates"}, n_ref \in 0..MaxRef, n_pool \in 0..MaxPool,
          with_clone \in BOOLEAN, defect \in DEFECTS_TO_INVESTIGATE,
          num_replicas \in 0..MaxReplicas :
           LET rows == IF mode = "dates"
                       THEN InputRows(mode, "0", "1", n_ref, n_pool, with_clone)
                       ELSE InputRows(mode, "intact", "5defect", n_ref, n_pool, with_clone)
               label == IF mode = "dates" THEN "0" ELSE defect
               all_sequences == read_data(SequenceList, rows).self
               parts == get_defect_stats(all_sequences.sequences, label)
           IN  /\ seq_list = all_sequences
               /\ call = [mode |-> mode,
                          defect_seqs |-> parts.sequences_this_defect,
                          sequences |-> parts.other_sequences,
                          num_replicas |-> num_replicas]
    /\ raised = "None"
    /\ last_call = [op |-> "add_initial_sequence", clone_id |-> "", frequency |-> 0]
    /\ history = [calls |-> Len(seq_list.sequences), initial_only |-> TRUE,
                  unique_only |-> FALSE]
    /\ query = NoQuery
    /\ result = NoResult
    /\ pc = "start"
    /\ i = 0
    /\ sampled_sequences = SequenceList
    /\ new_seqs = << >>
    /\ outfile = << >>
    /\ all_stats = [k \in {} |-> << >>]
    /\ average_median_date = 0
    /\ error = "None"

Fail(exception) ==
    /\ pc' = "failed"
    /\ error' = exception

\* do_subsampling, lines 149-155: the header is written
Begin ==
    /\ call.mode = "defect"
    /\ pc = "start"
    /\ outfile' = <<[iteration |-> "header"]>>
    /\ pc' = "for"
    /\ UNCHANGED <<build_vars, query_vars, call, i, sampled_sequences, new_seqs, all_stats,
                   average_median_date, error>>

\* do_subsampling, lines 156-170: one pass of the for loop
Replica ==
    /\ call.mode = "defect"
    /\ pc = "for"
    /\ i < call.num_replicas
    /\ LET sampling_depth == Len(call.defect_seqs.sequences)
           population == call.sequences.sequences
       IN  IF choices_indices(population, sampling_depth) = {}
           THEN /\ Fail("IndexError")
                /\ UNCHANGED <<i, sampled_sequences, outfile, all_stats>>
           ELSE \E indices \in choices_indices(population, sampling_depth) :
                  LET sampled == add_many_sequences(SequenceList,
                                                    choices(population, indices))
                      table == <<<<call.defect_seqs.clone_counter, sampled.clone_counter>>,
                                 <<call.defect_seqs.unique_counter, sampled.unique_counter>>>>
                  IN  /\ sampled_sequences' = sampled
                      /\ outfile' = Append(outfile,
                                           [iteration |-> i + 1,
                                            unique |-> sampled.unique_counter,
                                            clones |-> sampled.clone_counter])
                      /\ all_stats' = add_all_data(all_stats, sampled.unique_counter,
                                                   sampled.clone_counter, table, table)
                      /\ i' = i + 1
                      /\ UNCHANGED <<pc, error>>
    /\ UNCHANGED <<build_vars, query_vars, call, new_seqs, average_median_date>>

\* do_subsampling, lines 171-183: the two summary rows
SummaryRows ==
    /\ call.mode = "defect"
    /\ pc = "for"
    /\ i = call.num_replicas
    /\ LET means == calculate_stats(all_stats)
       IN  IF Len(means) = 0
           THEN /\ Fail("IndexError")
                /\ UNCHANGED outfile
           ELSE /\ outfile' = outfile \o
                       <<[iteration |-> "averages", unique |-> means[1], clones |-> means[2]],
                         [iteration |-> "standard deviations"]>>
                /\ pc' = "done"
                /\ UNCHANGED error
    /\ UNCHANGED <<build_vars, query_vars, call, i, sampled_sequences, new_seqs, all_stats,
                   average_median_date>>

\* do_subsampling_dates, lines 188-196: the reference median, then the header
BeginDates ==
    /\ call.mode = "dates"
    /\ pc = "start"
    /\ LET sampled_median == get_median_date_of_distinct_sequences(call.defect_seqs)
       IN  IF sampled_median.raised # "None"
           THEN /\ Fail(sampled_median.raised)
                /\ UNCHANGED outfile
           ELSE /\ outfile' = <<[iteration |-> "header"]>>
                /\ pc' = "for"
                /\ UNCHANGED error
    /\ UNCHANGED <<build_vars, query_vars, call, i, sampled_sequences, new_seqs, all_stats,
                   average_median_date>>

\* do_subsampling_dates, lines 197-198: a replica starts from SequenceList()
StartReplica ==
    /\ call.mode = "dates"
    /\ pc = "for"
    /\ i < call.num_replicas
    /\ sampled_sequences' = SequenceList
    /\ pc' = "while"
    /\ UNCHANGED <<build_vars, query_vars, call, i, new_seqs, outfile, all_stats,
                   average_median_date, error>>

\* do_subsampling_dates, lines 199-202: the while loop.  random.choices
\* draws the number_missing records of a batch one after the other (index is
\* the position it picks in the pool); with the last one drawn the batch goes
\* to add_many_sequences_to_existing and the loop condition is next.  On an
\* empty pool the first pick raises IndexError.  A batch that adds no clone
\* id is completed only while the replica stays within MaxSampled records.
DrawIndex(index) ==
    /\ call.mode = "dates"
    /\ pc = "while"
    /\ sampled_sequences.distinct_counter < call.defect_seqs.distinct_counter
    /\ LET missing == number_missing(call.defect_seqs.distinct_counter, sampled_sequences)
           drawn == Append(new_seqs, call.sequences.sequences[index])
           extended == add_many_sequences_to_existing(sampled_sequences, drawn)
       IN  IF Len(drawn) < missing
           THEN /\ new_seqs' = drawn
                /\ UNCHANGED sampled_sequences
           ELSE /\ \/ extended.distinct_counter > sampled_sequences.distinct_counter
                   \/ Len(extended.sequences) <= MaxSampled
                /\ sampled_sequences' = extended
                /\ new_seqs' = << >>
    /\ UNCHANGED <<build_vars, query_vars, call, pc, i, outfile, all_stats,
                   average_median_date, error>>

DrawFails ==
    /\ call.mode = "dates"
    /\ pc = "while"
    /\ sampled_sequences.distinct_counter < call.defect_seqs.distinct_counter
    /\ call.sequences.sequences = << >>
    /\ Fail("IndexError")
    /\ UNCHANGED <<build_vars, query_vars, call, i, sampled_sequences, new_seqs,
                   outfile, all_stats, average_median_date>>

Draw ==
    \/ \E index \in DOMAIN call.sequences.sequences : DrawIndex(index)
    \/ DrawFails

\* a pick of a record whose clone id the replica and the batch do not hold
DrawNew ==
    \E index \in DOMAIN call.sequences.sequences :
        /\ call.sequences.sequences[index].clone_id
              \notin clone_ids(sampled_sequences.sequences \o new_seqs)
        /\ DrawIndex(index)

\* do_subsampling_dates, lines 203-210: the while loop is left and the
\* replica's row written
FinishReplica ==
    /\ call.mode = "dates"
    /\ pc = "while"
    /\ ~(sampled_sequences.distinct_counter < call.defect_seqs.distinct_counter)
    /\ LET median == get_median_date_of_distinct_sequences(sampled_sequences)
       IN  IF median.raised # "None"
           THEN /\ Fail(median.raised)
                /\ UNCHANGED <<i, outfile, average_median_date>>
           ELSE /\ outfile' = Append(outfile, [iteration |-> i + 1,
                                               median_date |-> median.value])
                /\ average_median_date' = average_median_date + median.value
                /\ i' = i + 1
                /\ pc' = "for"
                /\ UNCHANGED error
    /\ UNCHANGED <<build_vars, query_vars, call, sampled_sequences, new_seqs,
                   all_stats>>

\* do_subsampling_dates, lines 211-220: the average and the comparison row
SummaryRowsDates ==
    /\ call.mode = "dates"
    /\ pc = "for"
    /\ i = call.num_replicas
    /\ IF call.num_replicas = 0
       THEN /\ Fail("ZeroDivisionError")
            /\ UNCHANGED outfile
       ELSE /\ outfile' = outfile \o
                   <<[iteration |-> "Average",
                      median_date |-> average_median_date \div call.num_replicas],
                     [iteration |-> "Comparison group",
                      median_date |->
                          get_median_date_of_distinct_sequences(call.defect_seqs).value]>>
            /\ pc' = "done"
            /\ UNCHANGED error
    /\ UNCHANGED <<build_vars, query_vars, call, i, sampled_sequences, new_seqs, all_stats,
                   average_median_date>>

NextSub ==
    \/ Begin
    \/ Replica
    \/ SummaryRows
    \/ BeginDates
    \/ StartReplica
    \/ Draw
    \/ FinishReplica
    \/ SummaryRowsDates

SpecSub == InitSub /\ [][NextSub]_vars

\* Specification SpecDates: the calls of do_subsampling_dates among those of
\* SpecSub.  The interpreter goes on when the while loop can be left, and
\* the picks of random.choices are fair: a record with a clone id the
\* replica lacks is not passed over for ever.
InitDates ==
    /\ InitSub
    /\ call.mode = "dates"

NextDates ==
    \/ BeginDates
    \/ StartReplica
    \/ Draw
    \/ FinishReplica
    \/ SummaryRowsDates

SpecDates ==
    /\ InitDates
    /\ [][NextDates]_vars
    /\ WF_vars(FinishReplica)
    /\ WF_vars(DrawNew)

----------------------------------------------------------------------------
(* Properties of the two replica loops: C8 under SpecSub, C9 under         *)
(* SpecDates.                                                              *)

\* num_replicas == 0, or an empty source pool
Degenerate ==
    call.num_replicas = 0 \/ call.sequences.sequences = << >>

\* C8: a degenerate request is rejected before the loop: the call fails
\* with nothing written to the report and no replica drawn.
C8_RejectedBeforeOutput ==
    (Degenerate /\ pc \in {"for", "while", "done", "failed"}) =>
        /\ pc = "failed"
        /\ outfile = << >>
        /\ i = 0

PoolDistinct == Cardinality(clone_ids(call.sequences.sequences))
Target == call.defect_seqs.distinct_counter

\* a step of the while loop that completes a batch
DrawStep ==
    pc = "while" /\ pc' = "while" /\ sampled_sequences' # sampled_sequences

\* the parts of the claim about the while loop that do not depend on the
\* pool being empty: each pass draws exactly the missing count,
\* distinct_counter never exceeds the target, the loop is left exactly when
\* the two are equal, and with a pool of at least as many distinct ids as the
\* target it is left eventually
LoopCommon ==
    /\ [][DrawStep =>
            Len(sampled_sequences'.sequences) - Len(sampled_sequences.sequences)
                = Target - sampled_sequences.distinct_counter]_vars
    /\ [](pc = "while" => sampled_sequences.distinct_counter <= Target)
    /\ [][(pc = "while" /\ pc' = "for") =>
            sampled_sequences.distinct_counter = Target]_vars
    /\ [][(pc = "while" /\ sampled_sequences.distinct_counter = Target) =>
            pc' # "while"]_vars
    /\ (pc = "while" /\ PoolDistinct >= Target) ~> (pc # "while")

\* C9: each pass of the while loop draws exactly the missing count,
\* distinct_counter never exceeds the target, the loop is left exactly when
\* the two are equal, it is left eventually when the pool has at least as
\* many distinct ids as the target, and it is never left when the pool has
\* fewer.
C9_DistinctTargetedLoop ==
    /\ LoopCommon
    /\ [][(pc = "while" /\ PoolDistinct < Target) => pc' = "while"]_vars

\* What holds of the loop: the same with "never left" kept to a pool that is
\* not empty; on an empty pool the first pass leaves the loop with the
\* IndexError of random.choices.
LoopExceptEmptyPool ==
    /\ LoopCommon
    /\ [][(pc = "while" /\ PoolDistinct < Target /\ PoolDistinct > 0) =>
            pc' = "while"]_vars
    /\ [][(pc = "while" /\ PoolDistinct = 0) =>
            (pc' = "failed" /\ error' = "IndexError"
                /\ sampled_sequences = SequenceList)]_vars

\* a replica that needed a second pass: three records drawn, two distinct
\* ids so far, target three
SecondPassNeeded ==
    /\ pc = "while"
    /\ Target = 3
    /\ Len(sampled_sequences.sequences) = 3
    /\ sampled_sequences.distinct_counter = 2

====
